---- MODULE Spec2Model ----
(***************************************************************************)
(* Model of streetget/panorama.py (class Panorama).                        *)
(*                                                                         *)
(*  SpecImage : getImage - the worker pool that fetches the tiles of a     *)
(*              panorama through a shared Queue and the stitching that     *)
(*              follows q.join().  One step per queue operation, per       *)
(*              getTile call and per paste.                                *)
(*  FairSpecImage : SpecImage under weak fairness of the calling thread   *)
(*              and of every worker thread.                                *)
(*  Spec      : the single-threaded methods of a Panorama object           *)
(*              (numTiles, cropSize, getDepthData, getDepthImg,            *)
(*              saveDepthImage, saveMeta, saveTimeMeta), one step per      *)
(*              call.                                                      *)
(***************************************************************************)
EXTENDS Integers, Sequences, FiniteSets, TLC

VARIABLES
    \* ---- getImage: arguments and environment
    zoom,        \* argument zoom of getImage
    n_req,       \* argument n_threads of getImage, as passed by the caller
    custom,      \* self.isCustom()
    bad,         \* tile coordinates for which getTile raises
    \* ---- getImage: locals
    pc,          \* position of the calling thread inside getImage
    tw, th,      \* tw, th = self.numTiles(zoom)
    n_threads,   \* n_threads after min(n_threads, tw*th)
    tiles,       \* tiles = tw*th*[None], index 0 .. tw*th-1
    q,           \* items of the Queue, oldest first
    unfinished,  \* Queue.unfinished_tasks
    started,     \* threads started so far
    nput,        \* coordinates put so far
    nsent,       \* sentinels put so far
    wpc,         \* position of each worker thread
    witem,       \* item held by each worker
    pano,        \* canvas: pixel offset -> pasted tile
    npaste,      \* tiles pasted so far
    outcome,     \* how getImage ended ("" while it has not)
    bitmap,      \* value returned by getImage
    \* ---- getImage: history (not program state)
    fetched,     \* coordinate -> number of getTile calls
    taken,       \* coordinate -> number of times q.get() returned it
    writes,      \* <<coordinate, slot>> of every store into tiles
    reported,    \* coordinates whose task_done() has run
    sentinels,   \* worker -> number of sentinels q.get() returned to it
    \* ---- the Panorama object and its single-threaded methods
    meta,        \* self.meta
    time_meta,   \* self.time_meta
    data,        \* self.meta['model']['depth_map'] after base64 and zip decoding
    depthdata,   \* self.depthdata
    depthmap,    \* self.depthmap
    call         \* the last call that ended: method, zoom argument, and the
                 \* value returned, exception raised or file written

imgvars == <<zoom, n_req, custom, bad, pc, tw, th, n_threads, tiles, q,
             unfinished, started, nput, nsent, wpc, witem, pano, npaste,
             outcome, bitmap, fetched, taken, writes, reported, sentinels>>

objvars == <<meta, time_meta, data, depthdata, depthmap, call>>

vars == <<imgvars, objvars>>

-----------------------------------------------------------------------------
\* Bounds of the model
MaxTiles   == 8     \* getImage is explored for grids of at most MaxTiles tiles
MaxThreads == 2     \* largest n_threads passed to getImage
MaxBad     == 1     \* largest number of tiles the tile source fails on
MaxWidth   == 2     \* largest width in the header of a depth buffer
MaxHeight  == 3     \* largest height in the header of a depth buffer
MaxPlanes  == 2     \* largest plane count in the header of a depth buffer

-----------------------------------------------------------------------------
\* Python values
NoneV    == <<>>            \* None
Sentinel == <<>>            \* sentinel = object()
Blank    == <<"blank">>     \* a cell of Image.new('RGB', ...) nothing was pasted on

TileSize == 512

Min(a, b) == IF a < b THEN a ELSE b

\* list[i] of Python: negative indices count from the end
PyIndex(list, i) ==
    IF i >= 0 /\ i < Len(list) THEN list[i + 1]
    ELSE IF i < 0 /\ i >= -Len(list) THEN list[Len(list) + i + 1]
    ELSE <<"IndexError">>

IndexError == <<"IndexError">>

NumTilesTable ==
    << <<1, 1>>, <<2, 1>>, <<4, 2>>, <<7, 4>>, <<13, 7>>, <<26, 13>> >>

CropSizeTable ==
    << <<0, 0, 417, 208>>, <<0, 0, 833, 416>>, <<0, 0, 1665, 832>>,
       <<0, 0, 3329, 1664>>, <<0, 0, 6656, 3328>>, <<0, 0, 13312, 6656>> >>

numTiles(z) == PyIndex(NumTilesTable, z)

cropSize(z) == PyIndex(CropSizeTable, z)

\* zoom arguments tried: the documented range [0,5] and what lies around it
ZoomArgs == (-(Len(NumTilesTable) + 1)) .. Len(NumTilesTable)

NoCall == [op |-> "", arg |-> <<>>, ret |-> <<>>]

-----------------------------------------------------------------------------
\* getImage

Workers == 1 .. MaxThreads

\* product(range(w), range(h)), in order
Grid(w, h) == [i \in 1 .. w * h |-> <<(i - 1) \div h, (i - 1) % h>>]

GridSet(w, h) == {Grid(w, h)[i] : i \in 1 .. w * h}

\* the image the tile source holds for (x, y) at zoom z
getTile(x, y, z) == <<"tile", z, x, y>>

\* index of the slot of tiles written for (x, y):  tiles[y+th*x]
SlotIndexSwapped(x, y, w, h) == y + w * x
SlotIndex(x, y, w, h) == y + h * x

\* box of pano.paste for (x, y):  (512*x, 512*y)
PasteOffsetSwapped(x, y) == <<TileSize * y, TileSize * x>>
PasteOffset(x, y) == <<TileSize * x, TileSize * y>>

\* the cells of Image.new('RGB', (512*w, 512*h)), by the offset of their corner
CanvasCells(w, h) ==
    {<<TileSize * x, TileSize * y>> : x \in 0 .. w - 1, y \in 0 .. h - 1}

\* Queue.join() returns when no task is unfinished
JoinSkipped(u) == TRUE
JoinReady(u) == u = 0

\* zoom values getImage is explored with: those numTiles rejects and those
\* of [0,5] whose grid has at most MaxTiles tiles (a negative zoom that
\* numTiles accepts runs the grid of the entry it selects)
ImageZooms ==
    {z \in ZoomArgs : \/ numTiles(z) = IndexError
                      \/ z >= 0 /\ numTiles(z)[1] * numTiles(z)[2] <= MaxTiles}

ThreadArgs == -1 .. MaxThreads

BadSets(z) ==
    IF numTiles(z) = IndexError THEN {{}}
    ELSE {S \in SUBSET GridSet(numTiles(z)[1], numTiles(z)[2]) : Cardinality(S) <= MaxBad}

InitImage ==
    /\ zoom \in ImageZooms
    /\ n_req \in ThreadArgs
    /\ custom \in BOOLEAN
    /\ bad \in BadSets(zoom)
    /\ pc = "call"
    /\ tw = 0 /\ th = 0
    /\ n_threads = n_req
    /\ tiles = <<>>
    /\ q = <<>>
    /\ unfinished = 0
    /\ started = 0 /\ nput = 0 /\ nsent = 0
    /\ wpc = [w \in Workers |-> "none"]
    /\ witem = [w \in Workers |-> <<>>]
    /\ pano = <<>>
    /\ npaste = 0
    /\ outcome = ""
    /\ bitmap = NoneV
    /\ fetched = <<>>
    /\ taken = <<>>
    /\ writes = {}
    /\ reported = {}
    /\ sentinels = [w \in Workers |-> 0]
    /\ meta = NoneV
    /\ time_meta = NoneV
    /\ data = <<>>
    /\ depthdata = NoneV
    /\ depthmap = NoneV
    /\ call = NoCall

\* position of the caller after the thread loop, the put loop or the sentinel loop
AfterSpawn(s, n, total) ==
    IF s < n THEN "spawn" ELSE IF total > 0 THEN "put" ELSE IF n > 0 THEN "sentinel" ELSE "join"

AfterPut(p, n, total) ==
    IF p < total THEN "put" ELSE IF n > 0 THEN "sentinel" ELSE "join"

\* lines 200-206: isCustom, numTiles, tiles, min
Enter ==
    /\ pc = "call"
    /\ IF custom
       THEN /\ pc' = "raised"
            /\ outcome' = "NotImplementedError"
            /\ UNCHANGED <<tw, th, n_threads, tiles, fetched, taken>>
       ELSE IF numTiles(zoom) = IndexError
       THEN /\ pc' = "raised"
            /\ outcome' = "IndexError"
            /\ UNCHANGED <<tw, th, n_threads, tiles, fetched, taken>>
       ELSE LET w == numTiles(zoom)[1]
                h == numTiles(zoom)[2]
                n == Min(n_req, w * h)
            IN  /\ tw' = w
                /\ th' = h
                /\ tiles' = [i \in 0 .. w * h - 1 |-> NoneV]
                /\ n_threads' = n
                /\ fetched' = [c \in GridSet(w, h) |-> 0]
                /\ taken' = [c \in GridSet(w, h) |-> 0]
                /\ pc' = AfterSpawn(0, n, w * h)
                /\ outcome' = outcome
    /\ UNCHANGED objvars
    /\ UNCHANGED <<zoom, n_req, custom, bad, q, unfinished, started, nput, nsent,
                   wpc, witem, pano, npaste, bitmap, writes, reported, sentinels>>

\* lines 223-226: one pass of the loop that starts the threads
StartThread ==
    /\ pc = "spawn"
    /\ started < n_threads
    /\ started' = started + 1
    /\ wpc' = [wpc EXCEPT ![started + 1] = "get"]
    /\ pc' = AfterSpawn(started + 1, n_threads, tw * th)
    /\ UNCHANGED objvars
    /\ UNCHANGED <<zoom, n_req, custom, bad, tw, th, n_threads, tiles, q, unfinished,
                   nput, nsent, witem, pano, npaste, outcome, bitmap,
                   fetched, taken, writes, reported, sentinels>>

\* lines 229-230: q.put(xy)
PutJob ==
    /\ pc = "put"
    /\ nput < tw * th
    /\ q' = Append(q, Grid(tw, th)[nput + 1])
    /\ unfinished' = unfinished + 1
    /\ nput' = nput + 1
    /\ pc' = AfterPut(nput + 1, n_threads, tw * th)
    /\ UNCHANGED objvars
    /\ UNCHANGED <<zoom, n_req, custom, bad, tw, th, n_threads, tiles, started, nsent,
                   wpc, witem, pano, npaste, outcome, bitmap,
                   fetched, taken, writes, reported, sentinels>>

\* lines 232-233: q.put(sentinel)
PutSentinel ==
    /\ pc = "sentinel"
    /\ nsent < n_threads
    /\ q' = Append(q, Sentinel)
    /\ unfinished' = unfinished + 1
    /\ nsent' = nsent + 1
    /\ pc' = IF nsent + 1 < n_threads THEN "sentinel" ELSE "join"
    /\ UNCHANGED objvars
    /\ UNCHANGED <<zoom, n_req, custom, bad, tw, th, n_threads, tiles, started, nput,
                   wpc, witem, pano, npaste, outcome, bitmap,
                   fetched, taken, writes, reported, sentinels>>

\* line 211: item = q.get(), blocking while the queue is empty
WorkerGet(w) ==
    /\ wpc[w] = "get"
    /\ q # <<>>
    /\ q' = Tail(q)
    /\ witem' = [witem EXCEPT ![w] = Head(q)]
    /\ wpc' = [wpc EXCEPT ![w] = IF Head(q) = Sentinel THEN "sentinel" ELSE "fetch"]
    /\ taken' = IF Head(q) = Sentinel THEN taken
                ELSE [taken EXCEPT ![Head(q)] = @ + 1]
    /\ sentinels' = IF Head(q) = Sentinel THEN [sentinels EXCEPT ![w] = @ + 1]
                    ELSE sentinels
    /\ UNCHANGED objvars
    /\ UNCHANGED <<zoom, n_req, custom, bad, pc, tw, th, n_threads, tiles, unfinished,
                   started, nput, nsent, pano, npaste, outcome, bitmap,
                   fetched, writes, reported>>

\* lines 212-214: the sentinel: task_done() and leave the loop
WorkerExitNoTaskDone(w) ==
    /\ wpc[w] = "sentinel"
    /\ wpc' = [wpc EXCEPT ![w] = "exited"]
    /\ UNCHANGED objvars
    /\ UNCHANGED <<zoom, n_req, custom, bad, pc, tw, th, n_threads, tiles, q, unfinished,
                   started, nput, nsent, witem, pano, npaste, outcome, bitmap,
                   fetched, taken, writes, reported, sentinels>>

WorkerExit(w) ==
    /\ wpc[w] = "sentinel"
    /\ unfinished' = unfinished - 1
    /\ wpc' = [wpc EXCEPT ![w] = "exited"]
    /\ UNCHANGED objvars
    /\ UNCHANGED <<zoom, n_req, custom, bad, pc, tw, th, n_threads, tiles, q,
                   started, nput, nsent, witem, pano, npaste, outcome, bitmap,
                   fetched, taken, writes, reported, sentinels>>

\* lines 215-216: tiles[y+th*x] = self.getTile(x, y, zoom).  An exception of
\* getTile, or of the store, is not caught: it ends the thread.
WorkerFetch(w) ==
    /\ wpc[w] = "fetch"
    /\ LET x == witem[w][1]
           y == witem[w][2]
           i == SlotIndex(x, y, tw, th)
       IN  /\ fetched' = [fetched EXCEPT ![witem[w]] = @ + 1]
           /\ IF witem[w] \in bad
              THEN /\ wpc' = [wpc EXCEPT ![w] = "dead"]
                   /\ UNCHANGED <<tiles, writes>>
              ELSE /\ writes' = writes \cup {<<witem[w], i>>}
                   /\ IF i \in DOMAIN tiles
                      THEN /\ tiles' = [tiles EXCEPT ![i] = getTile(x, y, zoom)]
                           /\ wpc' = [wpc EXCEPT ![w] = "task_done"]
                      ELSE /\ tiles' = tiles
                           /\ wpc' = [wpc EXCEPT ![w] = "dead"]
    /\ UNCHANGED objvars
    /\ UNCHANGED <<zoom, n_req, custom, bad, pc, tw, th, n_threads, q, unfinished,
                   started, nput, nsent, witem, pano, npaste, outcome, bitmap,
                   taken, reported, sentinels>>

\* line 217: q.task_done()
WorkerTaskDone(w) ==
    /\ wpc[w] = "task_done"
    /\ unfinished' = unfinished - 1
    /\ reported' = reported \cup {witem[w]}
    /\ wpc' = [wpc EXCEPT ![w] = "get"]
    /\ UNCHANGED objvars
    /\ UNCHANGED <<zoom, n_req, custom, bad, pc, tw, th, n_threads, tiles, q,
                   started, nput, nsent, witem, pano, npaste, outcome, bitmap,
                   fetched, taken, writes, sentinels>>

\* lines 235-239: q.join() returns; pano = Image.new('RGB', (512*tw, 512*th))
Join ==
    /\ pc = "join"
    /\ JoinReady(unfinished)
    /\ pano' = [o \in CanvasCells(tw, th) |-> Blank]
    /\ pc' = "paste"
    /\ UNCHANGED objvars
    /\ UNCHANGED <<zoom, n_req, custom, bad, tw, th, n_threads, tiles, q, unfinished,
                   started, nput, nsent, wpc, witem, npaste, outcome, bitmap,
                   fetched, taken, writes, reported, sentinels>>

\* lines 241-242: pano.paste(tiles[y+th*x], (512*x, 512*y)); pasting None
\* raises, a box outside the canvas is clipped away
Paste ==
    /\ pc = "paste"
    /\ npaste < tw * th
    /\ LET c == Grid(tw, th)[npaste + 1]
           i == SlotIndex(c[1], c[2], tw, th)
       IN  IF i \notin DOMAIN tiles
           THEN /\ pc' = "raised"
                /\ outcome' = "IndexError"
                /\ UNCHANGED <<pano, npaste>>
           ELSE IF tiles[i] = NoneV
           THEN /\ pc' = "raised"
                /\ outcome' = "PasteError"
                /\ UNCHANGED <<pano, npaste>>
           ELSE /\ pano' = [o \in DOMAIN pano |->
                               IF o = PasteOffset(c[1], c[2]) THEN tiles[i] ELSE pano[o]]
                /\ npaste' = npaste + 1
                /\ pc' = IF npaste + 1 < tw * th THEN "paste" ELSE "crop"
                /\ outcome' = outcome
    /\ UNCHANGED objvars
    /\ UNCHANGED <<zoom, n_req, custom, bad, tw, th, n_threads, tiles, q, unfinished,
                   started, nput, nsent, wpc, witem, bitmap,
                   fetched, taken, writes, reported, sentinels>>

\* lines 244-245: box = self.cropSize(zoom); return pano.crop(box)
Crop ==
    /\ pc = "crop"
    /\ IF cropSize(zoom) = IndexError
       THEN /\ pc' = "raised"
            /\ outcome' = "IndexError"
            /\ bitmap' = bitmap
       ELSE /\ pc' = "done"
            /\ outcome' = "returned"
            /\ bitmap' = [box |-> cropSize(zoom), canvas |-> pano]
    /\ UNCHANGED objvars
    /\ UNCHANGED <<zoom, n_req, custom, bad, tw, th, n_threads, tiles, q, unfinished,
                   started, nput, nsent, wpc, witem, pano, npaste,
                   fetched, taken, writes, reported, sentinels>>

NextImage ==
    \/ Enter
    \/ StartThread
    \/ PutJob
    \/ PutSentinel
    \/ \E w \in Workers : WorkerGet(w)
    \/ \E w \in Workers : WorkerExit(w)
    \/ \E w \in Workers : WorkerFetch(w)
    \/ \E w \in Workers : WorkerTaskDone(w)
    \/ Join
    \/ Paste
    \/ Crop

SpecImage == InitImage /\ [][NextImage]_vars

\* the steps of the thread that called getImage, and of worker thread w
MainStep == Enter \/ StartThread \/ PutJob \/ PutSentinel \/ Join \/ Paste \/ Crop

WorkerStep(w) == WorkerGet(w) \/ WorkerExit(w) \/ WorkerFetch(w) \/ WorkerTaskDone(w)

\* getImage under a scheduler that lets every thread that can run take a step
FairSpecImage ==
    /\ SpecImage
    /\ WF_vars(MainStep)
    /\ \A w \in Workers : WF_vars(WorkerStep(w))

-----------------------------------------------------------------------------
\* The depth buffer

\* data[a:b] of Python for 0 <= a, 0 <= b; buffers are indexed from 1 here
Slice(buf, a, b) == SubSeq(buf, Min(a, Len(buf)) + 1, Min(b, Len(buf)))

\* one little-endian unsigned short
U16(buf, i) == buf[i] + 256 * buf[i + 1]

\* one little-endian IEEE 754 single as <<sign, exponent, mantissa>>
F32(buf, i) ==
    << buf[i + 3] \div 128,
       (buf[i + 3] % 128) * 2 + buf[i + 2] \div 128,
       (buf[i + 2] % 128) * 65536 + buf[i + 1] * 256 + buf[i] >>

HeaderSize  == 8      \* Struct('< x 3H B').size
PlaneSize   == 16     \* Struct('< 4f').size

StructError == <<"struct.error">>
TypeError   == <<"TypeError">>

\* the planes read so far, or StructError when a record is cut short
RECURSIVE ReadPlanes(_, _, _)
ReadPlanes(buf, off, k) ==
    IF k = 0 THEN <<>>
    ELSE LET chunk == Slice(buf, off, off + PlaneSize)
         IN  IF Len(chunk) # PlaneSize THEN StructError
             ELSE LET rest == ReadPlanes(buf, off + PlaneSize, k - 1)
                  IN  IF rest = StructError THEN StructError
                      ELSE << << <<F32(chunk, 1), F32(chunk, 5), F32(chunk, 9)>>,
                                 F32(chunk, 13) >> >> \o rest

\* getDepthData from the decoded buffer on: the value stored in
\* self.depthdata, or the exception raised
getDepthData(buf) ==
    IF Len(buf) = 0 THEN IndexError
    ELSE LET hsize == buf[1]
             hdr   == Slice(buf, 0, hsize)
         IN  IF Len(hdr) # HeaderSize THEN StructError
             ELSE LET n_planes == U16(hdr, 2)
                      width    == U16(hdr, 4)
                      height   == U16(hdr, 6)
                      offset   == hdr[8]
                      n        == width * height
                      lbls     == Slice(buf, offset, offset + n)
                  IN  IF Len(lbls) # n THEN StructError
                      ELSE LET planes == ReadPlanes(buf, offset + n, n_planes)
                           IN  IF planes = StructError THEN StructError
                               ELSE << <<width, height>>, lbls, planes >>

IsError(v) == v \in {IndexError, StructError, TypeError}

\* ---- the buffers the model decodes

BytesU16(v) == <<v % 256, v \div 256>>

BytesF32(f) ==
    << f[3] % 256, (f[3] \div 256) % 256,
       (f[2] % 2) * 128 + f[3] \div 65536, f[1] * 128 + f[2] \div 2 >>

FZero    == <<0, 0, 0>>            \*  0.0
FNegZero == <<1, 0, 0>>            \* -0.0
FOne     == <<0, 127, 0>>          \*  1.0
FThree   == <<0, 128, 4194304>>    \*  3.0
FFive    == <<0, 129, 2097152>>    \*  5.0

PlaneKinds ==
    << << <<FZero, FZero, FOne>>, FFive >>,
       << <<FOne, FZero, FZero>>, FThree >>,
       << <<FZero, FOne, FZero>>, FNegZero >> >>

\* plane sections: np planes taken in order from PlaneKinds, from any start
PlaneLists(np) ==
    {[i \in 1 .. np |-> PlaneKinds[((r + i - 2) % Len(PlaneKinds)) + 1]] :
        r \in 1 .. (IF np = 0 THEN 1 ELSE Len(PlaneKinds))}

BytesPlane(pl) ==
    BytesF32(pl[1][1]) \o BytesF32(pl[1][2]) \o BytesF32(pl[1][3]) \o BytesF32(pl[2])

RECURSIVE BytesPlanes(_)
BytesPlanes(pls) ==
    IF pls = <<>> THEN <<>> ELSE BytesPlane(Head(pls)) \o BytesPlanes(Tail(pls))

\* label arrays over the labels 0 .. MaxPlanes: one label everywhere, or the
\* next label at the last pixel
LabelArrays(n) ==
    {[i \in 1 .. n |-> a] : a \in 0 .. MaxPlanes}
    \cup {[i \in 1 .. n |-> IF i = n THEN (a + 1) % (MaxPlanes + 1) ELSE a] :
             a \in 0 .. MaxPlanes}

Buffer(hsize, np, w, h, lbls, pls) ==
    <<hsize>> \o BytesU16(np) \o BytesU16(w) \o BytesU16(h) \o <<HeaderSize>>
        \o lbls \o BytesPlanes(pls)

WellFormed ==
    {Buffer(HeaderSize, np, w, h, lbls, pls) :
        <<np, w, h, lbls, pls>> \in
            UNION {UNION {UNION {
                {<<np_, w_, h_, l_, p_>> : l_ \in LabelArrays(w_ * h_),
                                            p_ \in PlaneLists(np_)} :
                np_ \in 0 .. MaxPlanes} : w_ \in 1 .. MaxWidth} : h_ \in 1 .. MaxHeight}}

\* a buffer that lost its last byte, and one whose first byte is one too small
Damaged ==
    {SubSeq(b, 1, Len(b) - 1) : b \in {c \in WellFormed : c[4] = 1 /\ c[6] = 1}}
    \cup {[b EXCEPT ![1] = HeaderSize - 1] : b \in {c \in WellFormed : c[4] = 1 /\ c[6] = 1}}
    \cup {<<>>}

Buffers == WellFormed \cup Damaged

-----------------------------------------------------------------------------
\* getDepthImg

\* A float of the projection is followed only as far as its class:
\*   "nan"   not a number
\*   "zero"  exactly 0
\*   "eps"   the non-zero rounding residue of a value that is 0 in exact
\*           arithmetic (cos of the double nearest pi/2, sin of the double
\*           nearest pi)
\*   "num"   any other finite value
\* and a quotient d / |v.n| as "nan", "inf", "huge" (a finite d over a
\* residue), "zero" or "fin".

FClass(f) ==
    IF f[2] = 255 /\ f[3] # 0 THEN "nan"
    ELSE IF f[2] = 0 /\ f[3] = 0 THEN "zero"
    ELSE "num"

\* pitch = (h-1 - y) * pi / (h-1); 0 * pi / 0 is nan
SinPitch(y, h) ==
    IF h = 1 THEN "nan"
    ELSE IF h - 1 - y = 0 THEN "zero"
    ELSE IF h - 1 - y = h - 1 THEN "eps"
    ELSE "num"

CosPitch(y, h) ==
    IF h = 1 THEN "nan"
    ELSE IF 2 * (h - 1 - y) = h - 1 THEN "eps"
    ELSE "num"

\* yaw = (w-1 - x) * 2*pi / (w-1) + pi/2
CosYaw(x, w) ==
    IF w = 1 THEN "nan"
    ELSE IF (2 * (w - 1 - x)) % (w - 1) = 0 THEN "eps"
    ELSE "num"

SinYaw(x, w) ==
    IF w = 1 THEN "nan"
    ELSE IF ((w - 1) + 4 * (w - 1 - x)) % (2 * (w - 1)) = 0 THEN "eps"
    ELSE "num"

Mul(a, b) ==
    IF a = "nan" \/ b = "nan" THEN "nan"
    ELSE IF a = "zero" \/ b = "zero" THEN "zero"
    ELSE IF a = "eps" \/ b = "eps" THEN "eps"
    ELSE "num"

\* np.sum over the three products; the normals of PlaneKinds have one
\* non-zero component, so at most one term is not exactly 0
Sum3(a, b, c) ==
    IF "nan" \in {a, b, c} THEN "nan"
    ELSE IF "num" \in {a, b, c} THEN "num"
    ELSE IF "eps" \in {a, b, c} THEN "eps"
    ELSE "zero"

\* v = (sin(pitch)cos(yaw), sin(pitch)sin(yaw), cos(pitch));  sum(v * n)
Dot(x, y, w, h, n) ==
    Sum3(Mul(Mul(SinPitch(y, h), CosYaw(x, w)), FClass(n[1])),
         Mul(Mul(SinPitch(y, h), SinYaw(x, w)), FClass(n[2])),
         Mul(CosPitch(y, h), FClass(n[3])))

\* d[d == 0] = np.nan
MaskNothing(d) == d
MaskZero(d) == IF d = "zero" THEN "nan" ELSE d

\* d / np.abs(...): numpy warns on a division by zero and does not raise
Divide(d, a) ==
    IF d = "nan" \/ a = "nan" THEN "nan"
    ELSE IF a = "zero" THEN (IF d = "zero" THEN "nan" ELSE "inf")
    ELSE IF d = "zero" THEN "zero"
    ELSE IF a = "eps" THEN "huge"
    ELSE "fin"

\* pixel (x, y) is entry y*w + x of the label array
PixelX(i, w) == (i - 1) % w
PixelY(i, w) == (i - 1) \div w

\* lines 308-332: the distance field, or IndexError for a label without plane
Project(dd) ==
    LET w      == dd[1][1]
        h      == dd[1][2]
        lbls   == dd[2]
        planes == dd[3]
    IN  IF \E i \in 1 .. Len(lbls) : lbls[i] >= Len(planes) THEN IndexError
        ELSE [i \in 1 .. Len(lbls) |->
                 Divide(MaskZero(FClass(planes[lbls[i] + 1][2])),
                        Dot(PixelX(i, w), PixelY(i, w), w, h, planes[lbls[i] + 1][1]))]

\* `if zoom:` of Python; the argument is <<>> for None and <<z>> for z
Truthy(zo) == zo # <<>> /\ zo[1] # 0

\* lines 334-349: the image returned for a distance field of size w x h:
\* <<"img", width, height>> is the rendered field, <<"blank", 1, 1>> the
\* Image.new('RGB', (1,1)) returned when plt.imshow raised
Render(w, h, zo, shown) ==
    IF ~shown THEN <<"blank", 1, 1>>
    ELSE IF Truthy(zo)
         THEN IF cropSize(zo[1]) = IndexError THEN IndexError
              ELSE <<"img", cropSize(zo[1])[3], cropSize(zo[1])[4]>>
         ELSE <<"img", w, h>>

\* getDepthImg: the value returned or the exception raised, and self.depthmap
getDepthImg(dd, dm, zo, shown) ==
    IF dd = NoneV THEN [ret |-> TypeError, depthmap |-> dm]
    ELSE LET field == Project(dd)
         IN  IF IsError(field) THEN [ret |-> field, depthmap |-> dm]
             ELSE [ret |-> Render(dd[1][1], dd[1][2], zo, shown), depthmap |-> field]

-----------------------------------------------------------------------------
\* The methods of a Panorama object, one call per step

\* zoom arguments of getDepthImg and saveDepthImage: None, [0,5] and the
\* values next to it
ZoomOpt == {<<>>} \cup {<<z>> : z \in -1 .. Len(CropSizeTable)}

IdleImage ==
    /\ zoom = 0 /\ n_req = 0 /\ custom = FALSE /\ bad = {}
    /\ pc = "idle" /\ tw = 0 /\ th = 0 /\ n_threads = 0
    /\ tiles = <<>> /\ q = <<>> /\ unfinished = 0
    /\ started = 0 /\ nput = 0 /\ nsent = 0
    /\ wpc = [w \in Workers |-> "none"]
    /\ witem = [w \in Workers |-> <<>>]
    /\ pano = <<>> /\ npaste = 0 /\ outcome = "" /\ bitmap = NoneV
    /\ fetched = <<>> /\ taken = <<>> /\ writes = {} /\ reported = {}
    /\ sentinels = [w \in Workers |-> 0]

\* what getMeta and getTimeMeta returned to __init__ (lines 44-45): the
\* metadata and the timemachine metadata are different documents, and
\* getTimeMeta returns None when its request or its JSON fails
Meta     == <<"meta">>
TimeMeta == <<"time_meta">>

\* the panoramas the methods are called on: every buffer with its
\* timemachine metadata, the damaged ones also without
Panoramas ==
    {<<Meta, TimeMeta, b>> : b \in Buffers}
    \cup {<<Meta, NoneV, b>> : b \in Damaged}

\* json.dump(value, f): the document written
JsonDump(v) == <<"json", v>>

Init ==
    /\ IdleImage
    /\ \E p \in Panoramas : meta = p[1] /\ time_meta = p[2] /\ data = p[3]
    /\ depthdata = NoneV
    /\ depthmap = NoneV
    /\ call = NoCall

CallNumTiles(z) ==
    /\ call' = [op |-> "numTiles", arg |-> <<z>>, ret |-> numTiles(z)]
    /\ UNCHANGED <<data, depthdata, depthmap>>
    /\ UNCHANGED <<meta, time_meta>>
    /\ UNCHANGED imgvars

CallCropSize(z) ==
    /\ call' = [op |-> "cropSize", arg |-> <<z>>, ret |-> cropSize(z)]
    /\ UNCHANGED <<data, depthdata, depthmap>>
    /\ UNCHANGED <<meta, time_meta>>
    /\ UNCHANGED imgvars

\* lines 269-296
CallGetDepthData ==
    /\ LET dd == getDepthData(data)
       IN  /\ depthdata' = IF IsError(dd) THEN depthdata ELSE dd
           /\ call' = [op |-> "getDepthData", arg |-> <<>>, ret |-> dd]
    /\ UNCHANGED <<data, depthmap>>
    /\ UNCHANGED <<meta, time_meta>>
    /\ UNCHANGED imgvars

\* lines 298-349; shown tells whether plt.imshow accepted the distance field
CallGetDepthImg(zo, shown) ==
    /\ LET r == getDepthImg(depthdata, depthmap, zo, shown)
       IN  /\ depthmap' = r.depthmap
           /\ call' = [op |-> "getDepthImg", arg |-> zo, ret |-> r.ret]
    /\ UNCHANGED <<data, depthdata>>
    /\ UNCHANGED <<meta, time_meta>>
    /\ UNCHANGED imgvars

\* lines 375-390; what img.save writes is recorded as <<"saved">> \o image
CallSaveDepthImage(zo, shown) ==
    LET dd == IF depthdata = NoneV THEN getDepthData(data) ELSE depthdata
    IN  IF IsError(dd)
        THEN /\ call' = [op |-> "saveDepthImage", arg |-> zo, ret |-> dd]
             /\ UNCHANGED <<data, depthdata, depthmap>>
             /\ UNCHANGED <<meta, time_meta>>
             /\ UNCHANGED imgvars
        ELSE LET r == getDepthImg(dd, depthmap, zo, shown)
             IN  /\ depthdata' = dd
                 /\ depthmap' = r.depthmap
                 /\ call' = [op |-> "saveDepthImage", arg |-> zo,
                             ret |-> IF IsError(r.ret) THEN r.ret
                                     ELSE <<"saved">> \o r.ret]
                 /\ UNCHANGED data
                 /\ UNCHANGED <<meta, time_meta>>
                 /\ UNCHANGED imgvars

\* lines 513-519
CallSaveMeta ==
    /\ call' = [op |-> "saveMeta", arg |-> <<>>, ret |-> JsonDump(meta)]
    /\ UNCHANGED <<data, depthdata, depthmap>>
    /\ UNCHANGED <<meta, time_meta>>
    /\ UNCHANGED imgvars

\* lines 521-527: json.dump(self.meta, f)
CallSaveTimeMeta ==
    /\ call' = [op |-> "saveTimeMeta", arg |-> <<>>, ret |-> JsonDump(meta)]
    /\ UNCHANGED <<data, depthdata, depthmap>>
    /\ UNCHANGED <<meta, time_meta>>
    /\ UNCHANGED imgvars

Next ==
    \/ \E z \in ZoomArgs : CallNumTiles(z)
    \/ \E z \in ZoomArgs : CallCropSize(z)
    \/ CallGetDepthData
    \/ \E zo \in ZoomOpt, shown \in BOOLEAN : CallGetDepthImg(zo, shown)
    \/ \E zo \in ZoomOpt, shown \in BOOLEAN : CallSaveDepthImage(zo, shown)
    \/ CallSaveMeta
    \/ CallSaveTimeMeta

Spec == Init /\ [][Next]_vars

-----------------------------------------------------------------------------
\* Properties of getImage (SpecImage)

AllCoords == GridSet(tw, th)

Assembling == pc \in {"paste", "crop", "done"}

FetchFailed == \E c \in DOMAIN fetched : c \in bad /\ fetched[c] > 0

\* C1: once the fetch of a tile has failed, getImage ends by reporting a
\* fetch error, without a bitmap: when nothing in it can run any more, it has
\* raised the error.
C1_FetchFailureReported ==
    (FetchFailed /\ ~ENABLED NextImage) => (outcome = "FetchError" /\ bitmap = NoneV)

\* C2: stitching never begins while a dispatched tile task has not completed:
\* from the first paste on, every coordinate of the grid has reported
\* task_done and no worker holds a tile task.
C2_BarrierBeforeAssembly ==
    (Assembling \/ npaste > 0) =>
        /\ reported = AllCoords
        /\ \A w \in Workers : wpc[w] \notin {"fetch", "task_done"}
        /\ \A i \in DOMAIN tiles : tiles[i] # NoneV

C2_Witness ==
    /\ pc = "paste" /\ npaste = 0
    /\ n_threads = 2 /\ tw * th = 8
    /\ reported = AllCoords
    /\ \A w \in 1 .. 2 : wpc[w] = "exited"

\* C3: when every fetch succeeds the bitmap returned is the same for every
\* number of workers and every interleaving: the cell at pixel offset
\* (512*x, 512*y) holds the tile of the source for (x, y).
C3_FetchDeterminism ==
    pc = "done" =>
        /\ bitmap.box = cropSize(zoom)
        /\ DOMAIN bitmap.canvas = {<<512 * c[1], 512 * c[2]>> : c \in AllCoords}
        /\ \A c \in AllCoords : bitmap.canvas[<<512 * c[1], 512 * c[2]>>] = <<"tile", zoom, c[1], c[2]>>

C3_Witness ==
    /\ pc = "done" /\ outcome = "returned"
    /\ n_req = 2 /\ tw = 4 /\ th = 2
    /\ \A w \in 1 .. 2 : wpc[w] = "exited"

\* C4: every coordinate is taken from the queue by one worker and fetched
\* once; the slot written for (x, y) is y + th*x, lies in [0, tw*th) and
\* differs for different coordinates; when assembly starts every coordinate
\* has been taken, fetched and stored exactly once.
C4_ExclusiveCells ==
    /\ \A c \in DOMAIN fetched : fetched[c] <= 1 /\ taken[c] <= 1
    /\ \A e \in writes : e[2] = e[1][2] + th * e[1][1] /\ e[2] \in 0 .. tw * th - 1
    /\ \A e, f \in writes : e[2] = f[2] => e[1] = f[1]
    /\ Assembling => \A c \in AllCoords :
                        /\ fetched[c] = 1
                        /\ taken[c] = 1
                        /\ \E e \in writes : e[1] = c

C4_Witness ==
    /\ pc = "join" /\ unfinished = 0
    /\ Cardinality(writes) = 8
    /\ \A c \in AllCoords : taken[c] = 1 /\ fetched[c] = 1
    /\ n_threads = 2

\* C6: the number of threads getImage starts, and of sentinels it puts, is
\* min(n_threads, tw*th) and at least 1.
C6_EffectiveWorkers ==
    (pc \in {"join", "paste", "crop", "done"} /\ zoom \in 0 .. 5) =>
        /\ started = Min(n_req, tw * th)
        /\ nsent = Min(n_req, tw * th)
        /\ started >= 1

-----------------------------------------------------------------------------
\* Properties of the methods (Spec)

InRange(z) == z \in 0 .. 5

\* C5: numTiles and cropSize fail for every zoom outside [0,5].
C5_ZoomDomain ==
    (call.op \in {"numTiles", "cropSize"} /\ ~InRange(call.arg[1])) => call.ret = IndexError

\* C7: getDepthData fails when a label byte is >= the number of planes, so
\* every label of self.depthdata is an index into its planes.
C7_LabelRange ==
    /\ depthdata # NoneV => \A i \in 1 .. Len(depthdata[2]) : depthdata[2][i] < Len(depthdata[3])
    /\ (call.op = "getDepthData" /\ ~IsError(call.ret)) =>
            \A i \in 1 .. Len(call.ret[2]) : call.ret[2][i] < Len(call.ret[3])

PlaneOf(i) == depthdata[3][depthdata[2][i] + 1]

IsZeroF(f) == f[2] = 0 /\ f[3] = 0

Projected == depthdata # NoneV /\ depthmap # NoneV

\* C8: a pixel whose plane has distance 0 is no-data in the distance field,
\* whatever its ray and the normal of the plane.
C8_ProjectionSentinel ==
    Projected => \A i \in 1 .. Len(depthmap) : IsZeroF(PlaneOf(i)[2]) => depthmap[i] = "nan"

C8_Witness ==
    /\ Projected
    /\ depthdata[1] = <<2, 3>>
    /\ \E i \in 1 .. Len(depthmap) : IsZeroF(PlaneOf(i)[2]) /\ depthmap[i] = "nan"
    /\ \E i \in 1 .. Len(depthmap) : ~IsZeroF(PlaneOf(i)[2]) /\ depthmap[i] = "fin"

\* C9: a pixel whose ray is perpendicular to the normal of its plane, the
\* distance of the plane not being 0, is no-data in the distance field.
C9_PerpendicularRay ==
    Projected =>
        \A i \in 1 .. Len(depthmap) :
            (/\ ~IsZeroF(PlaneOf(i)[2])
             /\ Dot(PixelX(i, depthdata[1][1]), PixelY(i, depthdata[1][1]),
                    depthdata[1][1], depthdata[1][2], PlaneOf(i)[1]) \in {"zero", "eps"})
            => depthmap[i] = "nan"

\* C10: for every zoom of [0,5] the depth image of getDepthImg and of
\* saveDepthImage has the width and height of cropSize(zoom); without a zoom
\* it has the size of the depth map.
C10_DepthImageResize ==
    /\ (call.op = "getDepthImg" /\ call.ret[1] = "img") =>
          IF call.arg = <<>> THEN call.ret = <<"img", depthdata[1][1], depthdata[1][2]>>
          ELSE InRange(call.arg[1]) =>
                  call.ret = <<"img", CropSizeTable[call.arg[1] + 1][3], CropSizeTable[call.arg[1] + 1][4]>>
    /\ (call.op = "saveDepthImage" /\ call.ret[1] = "saved" /\ call.ret[2] = "img") =>
          IF call.arg = <<>> THEN call.ret = <<"saved", "img", depthdata[1][1], depthdata[1][2]>>
          ELSE InRange(call.arg[1]) =>
                  call.ret = <<"saved", "img", CropSizeTable[call.arg[1] + 1][3], CropSizeTable[call.arg[1] + 1][4]>>

\* C11: saveTimeMeta writes the timemachine metadata: the document in the
\* file is the JSON of self.time_meta, also when it differs from self.meta.
C11_SaveTimeMeta ==
    call.op = "saveTimeMeta" => call.ret = JsonDump(time_meta)

-----------------------------------------------------------------------------
\* Shutdown of the worker pool (FairSpecImage)

\* getImage is asked for at least one thread, no fetch fails, and the call
\* gets as far as its pool
PoolRuns == n_req >= 1 /\ bad = {} /\ ~custom /\ numTiles(zoom) # IndexError

\* getImage has returned and nothing of the pool is left
PoolShutDown ==
    /\ pc = "done" /\ outcome = "returned"
    /\ unfinished = 0 /\ q = <<>>
    /\ started = n_threads
    /\ \A w \in Workers : IF w <= n_threads
                           THEN wpc[w] = "exited" /\ sentinels[w] = 1
                           ELSE wpc[w] = "none" /\ sentinels[w] = 0

\* a worker takes at most one sentinel, and none before every coordinate of
\* the grid has been taken from the queue
SentinelsLast ==
    \A w \in Workers :
        /\ sentinels[w] <= 1
        /\ sentinels[w] = 1 => \A c \in AllCoords : taken[c] = 1

\* C12: with n_threads >= 1 and every fetch returning, under fair scheduling
\* every worker takes exactly one sentinel, after all coordinates have been
\* taken, and exits; the unfinished count reaches 0, q.join() returns and
\* getImage returns, no worker left blocked in q.get().
C12_PoolShutdown ==
    /\ [](PoolRuns => SentinelsLast)
    /\ PoolRuns ~> PoolShutDown

C12_Witness ==
    /\ PoolRuns /\ PoolShutDown
    /\ n_threads = 2 /\ tw * th = 8
    /\ npaste = 8

====
